---- MODULE Spec2Model ----
(***************************************************************************)
(* pxlcensor: the job queue engine (the PL/pgSQL functions claim_jobs,     *)
(* complete_job and fail_job over the tables images, jobs and events),     *)
(* the API handlers that feed it and the worker loop that drains it.       *)
(*                                                                         *)
(* The database runs at READ COMMITTED.  A statement sees the rows         *)
(* committed when it starts; a row lock is held until the transaction      *)
(* that took it commits; a writer that meets a locked row waits.  Every    *)
(* pool.query / client.query call is its own transaction.                  *)
(***************************************************************************)
EXTENDS Integers, Sequences, FiniteSets, Bags, TLC

\* ---------------------------------------------------------------- bounds
MaxImages == 1      \* image rows ever inserted
MaxJobs == 2        \* values ever drawn from the jobs id sequence
MaxNow == 30        \* the clock stops here (seconds)
MaxBatch == 2       \* largest batch_size a direct claim_jobs call passes
MaxCalls == 3       \* direct engine calls made in SpecEngine
EngineJobs == 2     \* jobs enqueued before the direct calls of SpecEngine
RaceJobs == 3       \* most jobs enqueued before the claims of SpecRace
MaxUploads == 2     \* image rows ever inserted in SpecUpload
MaxCaps == 1        \* capabilities issued in SpecCap
ShortTtl == 10      \* an expiresIn (seconds) short enough to run out
MaxPuts == 2        \* uploads the media service accepts in SpecStore
WakeConcurrency == 2 \* PROCESSOR_CONCURRENCY of the worker of SpecWake
Chunks == 2         \* writes it takes to put a body into a file

\* ------------------------------------------------------ program constants
BackoffSeconds == 10        \* interval '10 seconds'
DefaultMaxAttempts == 3     \* max_attempts INTEGER DEFAULT 3
Concurrency == 1            \* PROCESSOR_CONCURRENCY || '1'
DefaultTtl == 300           \* expiresIn = 300
DetailTtl == 60             \* getSignedUrl('GET', ..., 60)
DefaultMosaic == 20         \* defaultOptions.mosaic_size
MosaicMin == 1              \* options.mosaic_size < 1
MosaicMax == 120            \* options.mosaic_size > 120
ClaimBatch == 1             \* claim_jobs($1, 1) in processNext

\* ------------------------------------------------------------ value sets
NULL == "NULL"              \* SQL NULL in a text column
NullTime == -1              \* SQL NULL in a timestamp column
NoId == 0                   \* no row id

Shas == 1..MaxImages                   \* content hashes of the files uploaded
Pipelines == {"deface_boxes", "thumb"}
Workers == {"w1", "w2"}
Procs == {"p1", "p2", "p3"}            \* concurrent processNext invocations
Users == {"u1", "u2"}                  \* concurrent HTTP requests
Messages == {"timeout"}                \* error texts a failed step yields
AmbiguousColumn == "column reference \"processed_path\" is ambiguous"
ImageNotFound == "Image not found"
MaxAttemptsArgs == {1, DefaultMaxAttempts}
ResultPaths == {NULL, "processed/x.jpg"}

WorkerOf(p) == IF p = "p3" THEN "w2" ELSE "w1"
SystemProcs == {"p1", "p3"}            \* one invocation in each of two workers
SystemUsers == {"u1"}
CallerProcs == {"p1"}                  \* the caller of SpecEngine

VARIABLES
  now,        \* the database clock, NOW()
  images,     \* table images: id -> row
  jobs,       \* table jobs: id -> row
  events,     \* table events: a bag of rows
  imgseq,     \* image ids handed out so far
  jobseq,     \* last value of the jobs id sequence
  pc,         \* per processNext invocation: where it is; per worker: where
              \* its SIGTERM handler is
  tx,         \* per invocation: its open claim_jobs transaction
  cur,        \* per invocation: the job it is processing
  errmsg,     \* per invocation: the error processJob caught
  activeJobs, \* per worker: the activeJobs set
  upc,        \* per HTTP request slot: where the handler is
  ureq,       \* per request slot: the handler's locals
  uresp,      \* per request slot: the last response
  ret,        \* the last engine call and what it returned
  calls,      \* direct engine calls made so far
  nclaims,    \* per job id: how many times claim_jobs returned it
  race,       \* per caller of SpecRace: its one claim_jobs call and its rows
  notified,   \* notifications published on jobs_channel so far
  media,      \* the media service: capabilities issued, its last answer,
              \* its files and the uploads under way
  work        \* per invocation: the temp files of processJob, what the
              \* filter did, and whether the inner finally has run

dbvars == <<images, jobs, events, imgseq, jobseq>>
procvars == <<pc, tx, cur, errmsg, activeJobs>>
uservars == <<upc, ureq, uresp>>
vars == <<now, images, jobs, events, imgseq, jobseq, pc, tx, cur, errmsg,
          activeJobs, upc, ureq, uresp, ret, calls, nclaims, race, notified, media, work>>

\* ---------------------------------------------------------------- rows
\* processJob before it has made its temp paths; exit is the filter's exit
\* code, or "none" before it ran, "signal" or "spawn".
NoWork == [inner |-> FALSE, input |-> "none", output |-> "none",
           exit |-> "none", uploaded |-> FALSE, cleaned |-> FALSE]

\* A row of jobs whose attempts start at one.
NewJob_attempted(image_id, kind, dedupe_key, tnow) ==
  [image_id |-> image_id, kind |-> kind, status |-> "queued", run_at |-> tnow,
   attempts |-> 1, claimed_by |-> NULL, claimed_at |-> NullTime,
   dedupe_key |-> dedupe_key, error_log |-> NULL]

\* INSERT INTO jobs (image_id, kind, status, dedupe_key, ...): the other
\* columns take their defaults.
NewJob(image_id, kind, dedupe_key, tnow) ==
  [image_id |-> image_id, kind |-> kind, status |-> "queued", run_at |-> tnow,
   attempts |-> 0, claimed_by |-> NULL, claimed_at |-> NullTime,
   dedupe_key |-> dedupe_key, error_log |-> NULL]

OriginalPath(id) == "originals/" \o ToString(id)

\* const defaultOptions = { method: 'mosaic', mosaic_size: 20 }
defaultOptions == [method |-> "mosaic", mosaic_size |-> DefaultMosaic]

NewImageWith(id, sha256, options) ==
  [original_path |-> OriginalPath(id), processed_path |-> NULL,
   sha256 |-> sha256, status |-> "uploaded", processing_options |-> options]

NewImage(id, sha256) == NewImageWith(id, sha256, defaultOptions)

\* One row of events; data is flattened into job_id, attempts and text (the
\* pipeline of 'queued', the processed_path of 'job_completed', the error of
\* 'job_retry' and 'job_failed').
Event(image_id, type, job_id, attempts, text) ==
  [image_id |-> image_id, type |-> type, job_id |-> job_id,
   attempts |-> attempts, text |-> text]

AddEvent(evs, e) == evs (+) SetToBag({e})

EventCount(evs, image_id, type) ==
  LET hit == {e \in BagToSet(evs) : e.image_id = image_id /\ e.type = type}
      RECURSIVE Sum(_)
      Sum(S) == IF S = {} THEN 0
                ELSE LET e == CHOOSE x \in S : TRUE
                     IN CopiesIn(e, evs) + Sum(S \ {e})
  IN Sum(hit)

DB == [images |-> images, jobs |-> jobs, events |-> events]

NoCall == [op |-> "none", id |-> NoId, text |-> NULL, num |-> 0,
           rows |-> {}, val |-> "none"]

\* ------------------------------------------------------------ claim_jobs
\* A WHERE clause that takes a job only after its run_at has passed.
claim_qual_strict(row, tnow) == row.status = "queued" /\ row.run_at < tnow

\* A WHERE clause that also takes jobs that have failed for good.
claim_qual_failed_too(row, tnow) ==
  row.status \in {"queued", "failed"} /\ row.run_at <= tnow

\* WHERE jobs.status = 'queued' AND jobs.run_at <= NOW()
claim_qual(row, tnow) == row.status = "queued" /\ row.run_at <= tnow

\* A SET list with attempts = jobs.attempts + 2.
claim_set_twice(row, worker_id, tnow) ==
  [row EXCEPT !.status = "processing", !.claimed_by = worker_id,
              !.claimed_at = tnow, !.attempts = @ + 2]

\* A SET list without attempts = jobs.attempts + 1.
claim_set_same_attempts(row, worker_id, tnow) ==
  [row EXCEPT !.status = "processing", !.claimed_by = worker_id,
              !.claimed_at = tnow]

\* SET status = 'processing', claimed_by = worker_id, claimed_at = NOW(),
\*     attempts = jobs.attempts + 1
claim_set(row, worker_id, tnow) ==
  [row EXCEPT !.status = "processing", !.claimed_by = worker_id,
              !.claimed_at = tnow, !.attempts = @ + 1]

\* The rows the statement's snapshot offers to the sub-select, each with the
\* run_at it is sorted by.
claim_snapshot(jobsT, tnow) ==
  {[id |-> j, run_at |-> jobsT[j].run_at] :
     j \in {k \in DOMAIN jobsT : claim_qual(jobsT[k], tnow)}}

\* ORDER BY jobs.run_at: the candidates that may come next (ties in run_at
\* come in no particular order).
claim_next(cand) == {c \in cand : \A d \in cand : c.run_at <= d.run_at}

\* Rows locked by a claim_jobs transaction that is still open.
LockedBy(p) == IF pc[p] = "scan" THEN tx[p].got ELSE {}
LockedByOther(j, p) == \E q \in Procs \ {p} : j \in LockedBy(q)
Locked(j) == \E q \in Procs : j \in LockedBy(q)

\* FOR UPDATE without SKIP LOCKED and without waiting: the lock of another
\* transaction is not seen.
skip_locked_unseen(j, p, tnow) ==
  /\ j \in DOMAIN jobs
  /\ claim_qual(jobs[j], tnow)

\* SKIP LOCKED that takes the row as the snapshot had it, without the
\* re-check of the WHERE clause on its newest version.
skip_locked_stale(j, p, tnow) ==
  /\ j \in DOMAIN jobs
  /\ ~LockedByOther(j, p)

\* FOR UPDATE SKIP LOCKED on one candidate row: a row another transaction
\* holds is skipped; otherwise the row is locked and, if it changed since
\* the snapshot, its newest version must still pass the WHERE clause; a row
\* deleted meanwhile is gone.
skip_locked(j, p, tnow) ==
  /\ j \in DOMAIN jobs
  /\ ~LockedByOther(j, p)
  /\ claim_qual(jobs[j], tnow)

\* LIMIT batch_size
claim_limit_reached(t) == Cardinality(t.got) >= t.limit

\* The UPDATE of the selected rows.
claim_update(jobsT, got, worker_id, tnow) ==
  [j \in DOMAIN jobsT |->
     IF j \in got THEN claim_set(jobsT[j], worker_id, tnow) ELSE jobsT[j]]

NoTx == [now |-> 0, worker |-> NULL, limit |-> 0, cand |-> {}, got |-> {}]

ClaimBegin(p, worker_id, batch_size) ==
  /\ pc[p] = "idle"
  /\ pc' = [pc EXCEPT ![p] = "scan"]
  /\ tx' = [tx EXCEPT ![p] = [now |-> now, worker |-> worker_id,
                              limit |-> batch_size,
                              cand |-> claim_snapshot(jobs, now),
                              got |-> {}]]

ClaimScanRow(p) ==
  /\ pc[p] = "scan"
  /\ tx[p].cand # {}
  /\ ~claim_limit_reached(tx[p])
  /\ \E c \in claim_next(tx[p].cand) :
       tx' = [tx EXCEPT ![p].cand = @ \ {c},
                        ![p].got = IF skip_locked(c.id, p, tx[p].now)
                                   THEN @ \cup {c.id} ELSE @]
  /\ UNCHANGED <<now, dbvars, pc, cur, errmsg, activeJobs, uservars, ret,
                 calls, nclaims, race, notified, media, work>>

ClaimReady(p) ==
  /\ pc[p] = "scan"
  /\ (tx[p].cand = {} \/ claim_limit_reached(tx[p]))

ClaimReturn(p) ==
  [op |-> "claim", id |-> NoId, text |-> tx[p].worker, num |-> tx[p].limit,
   rows |-> tx[p].got, val |-> "rows"]

\* The UPDATE ... RETURNING and the commit that releases the locks.
ClaimCommit(p) ==
  /\ ClaimReady(p)
  /\ jobs' = claim_update(jobs, tx[p].got, tx[p].worker, tx[p].now)
  /\ nclaims' = [j \in DOMAIN nclaims |->
                   IF j \in tx[p].got THEN nclaims[j] + 1 ELSE nclaims[j]]
  /\ tx' = [tx EXCEPT ![p] = NoTx]
  /\ UNCHANGED <<now, images, events, imgseq, jobseq, uservars, notified, media, work>>

\* ---------------------------------------------------------- complete_job
\* UPDATE images SET status = 'done', processed_path = processed_path
\*   WHERE id = v_image_id;
\* The right-hand processed_path names both the column of images and the
\* function's parameter.  PL/pgSQL (plpgsql.variable_conflict = error, the
\* default, and nothing in the repository changes it) rejects the statement
\* when it is reached: 'column reference "processed_path" is ambiguous'.
\* The statement raises and leaves images as it was.
complete_update_image(imagesT, v_image_id, processed_path) ==
  [raised |-> TRUE, images |-> imagesT]

\* A complete_job that answers true whatever it finds.
complete_job_true(db, job_id, processed_path) == [db |-> db, val |-> "true"]

\* The result is the database the transaction leaves and the value the call
\* yields: "true", "false", or "error" when the function raised and the
\* transaction was rolled back.
complete_job(db, job_id, processed_path) ==
  LET found == job_id \in DOMAIN db.jobs
      v_image_id == IF found THEN db.jobs[job_id].image_id ELSE NoId
      jobs1 == IF found THEN [db.jobs EXCEPT ![job_id].status = "done"]
               ELSE db.jobs
      upd == IF processed_path # NULL
             THEN complete_update_image(db.images, v_image_id, processed_path)
             ELSE [raised |-> FALSE, images |-> db.images]
      events1 == AddEvent(db.events,
                   Event(v_image_id, "job_completed", job_id, -1, processed_path))
  IN IF v_image_id = NoId
     THEN [db |-> db, val |-> "false"]
     ELSE IF upd.raised
          THEN [db |-> db, val |-> "error"]
          ELSE [db |-> [images |-> upd.images, jobs |-> jobs1, events |-> events1],
                val |-> "true"]

\* -------------------------------------------------------------- fail_job
\* A delay counted backwards.
fail_backoff_back(tnow, v_attempts) == tnow - v_attempts * BackoffSeconds

\* A delay that does not grow with the attempts.
fail_backoff_flat(tnow, v_attempts) == tnow + BackoffSeconds

\* run_at = NOW() + (v_attempts * interval '10 seconds')
fail_backoff(tnow, v_attempts) == tnow + v_attempts * BackoffSeconds

\* A comparison that allows one attempt more.
fail_is_final_late(v_attempts, max_attempts) == v_attempts > max_attempts

\* IF v_attempts >= max_attempts (a NULL v_attempts takes the ELSE branch)
fail_is_final(v_attempts, max_attempts) == v_attempts >= max_attempts

\* A fail_job that writes no event.
fail_event_none(evs, v_image_id, v_status, job_id, v_attempts, error_message) ==
  evs

\* INSERT INTO events (image_id, type, data) VALUES (v_image_id, 'job_' || v_status, ...)
fail_event(evs, v_image_id, v_status, job_id, v_attempts, error_message) ==
  AddEvent(evs, Event(v_image_id, "job_" \o v_status, job_id, v_attempts, error_message))

\* A fail_job that answers retry and writes nothing.
fail_job_silent(db, job_id, error_message, max_attempts, tnow) ==
  [db |-> db, val |-> "retry"]

\* An events table that takes a row without an image.
events_image_id_nullable(v_image_id) == TRUE

\* events.image_id UUID NOT NULL
events_image_id_not_null(v_image_id) == v_image_id # NoId

\* The result is the database the transaction leaves and the value the call
\* yields: "retry", "failed", or "error" when the INSERT into events raised
\* and the transaction was rolled back.  With no row for job_id the SELECT
\* INTO leaves v_attempts and v_image_id NULL, the comparison is not true,
\* and the UPDATE of the ELSE branch finds nothing.
fail_job(db, job_id, error_message, max_attempts, tnow) ==
  LET found == job_id \in DOMAIN db.jobs
      v_attempts == IF found THEN db.jobs[job_id].attempts ELSE -1
      v_image_id == IF found THEN db.jobs[job_id].image_id ELSE NoId
      final == found /\ fail_is_final(v_attempts, max_attempts)
      v_status == IF final THEN "failed" ELSE "retry"
      jobs1 == IF ~found THEN db.jobs
               ELSE IF final
                    THEN [db.jobs EXCEPT ![job_id].status = "failed",
                                         ![job_id].error_log = error_message]
                    ELSE [db.jobs EXCEPT
                            ![job_id].status = "queued",
                            ![job_id].run_at = fail_backoff(tnow, v_attempts),
                            ![job_id].error_log = error_message,
                            ![job_id].claimed_by = NULL,
                            ![job_id].claimed_at = NullTime]
      images1 == IF final
                 THEN [i \in DOMAIN db.images |->
                         IF i = v_image_id
                         THEN [db.images[i] EXCEPT !.status = "failed"]
                         ELSE db.images[i]]
                 ELSE db.images
  IN IF ~events_image_id_not_null(v_image_id)
     THEN [db |-> db, val |-> "error"]
     ELSE [db |-> [jobs |-> jobs1,
                   images |-> images1,
                   events |-> fail_event(db.events, v_image_id, v_status, job_id,
                                         v_attempts, error_message)],
           val |-> v_status]

\* A writer waits for a row a claim_jobs transaction has locked.
RowFree(job_id) == ~Locked(job_id)

StoreDB(db) ==
  /\ images' = db.images
  /\ jobs' = db.jobs
  /\ events' = db.events

\* ------------------------------------------------------------- the clock
\* Time passes in steps of ten seconds, the unit of the backoff.
Tick ==
  /\ now + BackoffSeconds <= MaxNow
  /\ now' = now + BackoffSeconds
  /\ UNCHANGED <<dbvars, procvars, uservars, ret, calls, nclaims, race, notified, media, work>>

\* ------------------------------------------- direct calls of the engine
\* SELECT * FROM claim_jobs(worker_id, batch_size), by any caller.
CallClaim(p) ==
  /\ calls < MaxCalls
  /\ \E w \in Workers, n \in 1..MaxBatch : ClaimBegin(p, w, n)
  /\ calls' = calls + 1
  /\ UNCHANGED <<now, dbvars, cur, errmsg, activeJobs, uservars, ret, nclaims, race, notified, media, work>>

CallClaimReturn(p) ==
  /\ ClaimCommit(p)
  /\ ret' = ClaimReturn(p)
  /\ pc' = [pc EXCEPT ![p] = "idle"]
  /\ UNCHANGED <<cur, errmsg, activeJobs, calls, race, notified, media, work>>

\* SELECT complete_job(job_id, processed_path), by any caller.
CallComplete ==
  /\ calls < MaxCalls
  /\ \E id \in 1..MaxJobs, path \in ResultPaths :
       /\ RowFree(id)
       /\ LET r == complete_job(DB, id, path)
          IN /\ StoreDB(r.db)
             /\ ret' = [op |-> "complete", id |-> id, text |-> path, num |-> 0,
                        rows |-> {}, val |-> r.val]
  /\ calls' = calls + 1
  /\ UNCHANGED <<now, imgseq, jobseq, procvars, uservars, nclaims, race, notified, media, work>>

\* SELECT fail_job(job_id, error_message, max_attempts), by any caller.
CallFail ==
  /\ calls < MaxCalls
  /\ \E id \in 1..MaxJobs, msg \in Messages, m \in MaxAttemptsArgs :
       /\ RowFree(id)
       /\ LET r == fail_job(DB, id, msg, m, now)
          IN /\ StoreDB(r.db)
             /\ ret' = [op |-> "fail", id |-> id, text |-> msg, num |-> m,
                        rows |-> {}, val |-> r.val]
  /\ calls' = calls + 1
  /\ UNCHANGED <<now, imgseq, jobseq, procvars, uservars, nclaims, race, notified, media, work>>

\* ----------------------------------------------------- the API handlers
NoReq == [image |-> NoId, pipeline |-> NULL, sha |-> 0, job |-> NoId,
          options |-> defaultOptions]
NoResp == [code |-> "none", id |-> NoId, duplicate |-> FALSE,
           image |-> NoId, pipeline |-> NULL]
Resp(code, id, dup) == [code |-> code, id |-> id, duplicate |-> dup,
                        image |-> NoId, pipeline |-> NULL]

\* The response to POST /images/:id/process, with the :id and the pipeline
\* of the request it answers.
Asked(r, image, pipeline) == [r EXCEPT !.image = image, !.pipeline = pipeline]

Reply(u, r) ==
  /\ upc' = [upc EXCEPT ![u] = "idle"]
  /\ ureq' = [ureq EXCEPT ![u] = NoReq]
  /\ uresp' = [uresp EXCEPT ![u] = r]

\* Requests that have yet to draw an id from a sequence.
PendingInserts(at) == Cardinality({u \in Users : upc[u] = at})

\* The processing_options of a request body: the fields it names.
NoOptions == <<>>
OptionArgs ==
  {NoOptions,
   [method |-> "blur"], [method |-> "none"], [method |-> "invert"],
   [mosaic_size |-> MosaicMin - 1], [mosaic_size |-> MosaicMax],
   [mosaic_size |-> MosaicMax + 1],
   [method |-> "solid", mosaic_size |-> MosaicMin]}

\* const options = { ...defaultOptions, ...processing_options }
MergeOptions(processing_options) ==
  [f \in DOMAIN defaultOptions |->
     IF f \in DOMAIN processing_options THEN processing_options[f]
     ELSE defaultOptions[f]]

\* A list of methods without 'none'.
allowedMethods_strict == {"blur", "solid", "mosaic"}

\* const allowedMethods = ['blur', 'solid', 'none', 'mosaic']
allowedMethods == {"blur", "solid", "none", "mosaic"}

\* The two checks of the options; a failed one throws badRequest.
OptionsAccepted(options) ==
  /\ options.method \in allowedMethods
  /\ options.mosaic_size \in MosaicMin..MosaicMax

\* POST /upload-init with processing_options from `args`: the checks of the
\* options, then SELECT ... FROM images WHERE sha256 = $1
UploadInitFrom(u, most, args) ==
  /\ upc[u] = "idle"
  /\ imgseq + PendingInserts("upload_insert") < most
  /\ \E sha \in Shas, processing_options \in args :
       LET options == MergeOptions(processing_options)
           existing == {i \in DOMAIN images : images[i].sha256 = sha}
       IN IF ~OptionsAccepted(options)
          THEN Reply(u, Resp("400", NoId, FALSE))
          ELSE IF existing # {}
               THEN \E i \in existing : Reply(u, Resp("ok", i, TRUE))
               ELSE /\ upc' = [upc EXCEPT ![u] = "upload_insert"]
                    /\ ureq' = [ureq EXCEPT ![u] = [NoReq EXCEPT !.sha = sha,
                                                          !.options = options]]
                    /\ UNCHANGED uresp
  /\ UNCHANGED <<now, dbvars, procvars, ret, calls, nclaims, race, notified, media, work>>

\* POST /upload-init with no processing_options in the body.
UploadInitUpTo(u, most) == UploadInitFrom(u, most, {NoOptions})

UploadInit(u) == UploadInitUpTo(u, MaxImages)

\* INSERT INTO images (...) VALUES (..., 'uploaded', ...) RETURNING id
UploadInsert(u) ==
  /\ upc[u] = "upload_insert"
  /\ imgseq' = imgseq + 1
  /\ images' = images @@ (imgseq' :> NewImageWith(imgseq', ureq[u].sha, ureq[u].options))
  /\ upc' = [upc EXCEPT ![u] = "upload_log"]
  /\ ureq' = [ureq EXCEPT ![u].image = imgseq']
  /\ UNCHANGED <<now, jobs, events, jobseq, procvars, uresp, ret, calls, nclaims, race, notified, media, work>>

\* INSERT INTO events (image_id, type, data) VALUES ($1, 'uploaded', ...);
\* the insert fails on the foreign key when the image is gone.
UploadLog(u) ==
  /\ upc[u] = "upload_log"
  /\ IF ureq[u].image \in DOMAIN images
     THEN /\ events' = AddEvent(events, Event(ureq[u].image, "uploaded", NoId, -1, NULL))
          /\ Reply(u, Resp("ok", ureq[u].image, FALSE))
     ELSE /\ Reply(u, Resp("500", NoId, FALSE))
          /\ UNCHANGED events
  /\ UNCHANGED <<now, images, jobs, imgseq, jobseq, procvars, ret, calls, nclaims, race, notified, media, work>>

DedupeKey(sha, pipeline) == <<sha, pipeline>>

\* POST /images/:id/process: the SELECT of the image and the status checks.
ProcessRequest(u) ==
  /\ upc[u] = "idle"
  /\ jobseq + PendingInserts("process_insert") + PendingInserts("process_check")
       < MaxJobs
  /\ \E id \in 1..MaxImages, pipeline \in Pipelines :
       IF id \notin DOMAIN images
       THEN Reply(u, Asked(Resp("404", NoId, FALSE), id, pipeline))
       ELSE IF images[id].status \in {"processing", "queued", "done"}
            THEN Reply(u, Asked(Resp("409", NoId, FALSE), id, pipeline))
            ELSE /\ upc' = [upc EXCEPT ![u] = "process_check"]
                 /\ ureq' = [ureq EXCEPT ![u] =
                               [image |-> id, pipeline |-> pipeline,
                                sha |-> images[id].sha256, job |-> NoId,
                                options |-> images[id].processing_options]]
                 /\ UNCHANGED uresp
  /\ UNCHANGED <<now, dbvars, procvars, ret, calls, nclaims, race, notified, media, work>>

\* SELECT id FROM jobs WHERE dedupe_key = $1
ProcessCheck(u) ==
  /\ upc[u] = "process_check"
  /\ LET key == DedupeKey(ureq[u].sha, ureq[u].pipeline)
         existingJob == {j \in DOMAIN jobs : jobs[j].dedupe_key = key}
     IN IF existingJob # {}
        THEN \E j \in existingJob :
               Reply(u, Asked(Resp("ok", j, TRUE), ureq[u].image, ureq[u].pipeline))
        ELSE /\ upc' = [upc EXCEPT ![u] = "process_insert"]
             /\ UNCHANGED <<ureq, uresp>>
  /\ UNCHANGED <<now, dbvars, procvars, ret, calls, nclaims, race, notified, media, work>>

\* CREATE TRIGGER jobs_notify_queued AFTER INSERT ON jobs FOR EACH ROW
\* WHEN (NEW.status = 'queued'): PERFORM pg_notify('jobs_channel', ...).
\* No other statement of the repository publishes on the channel.
notify_job_queued(n, new_status) == IF new_status = "queued" THEN n + 1 ELSE n

\* A table in which any number of rows may hold one dedupe_key.
jobs_dedupe_key_free(jobsT, key) == FALSE

\* dedupe_key TEXT UNIQUE: a row of jobs holds the key already.
jobs_dedupe_key_taken(jobsT, key) ==
  \E j \in DOMAIN jobsT : jobsT[j].dedupe_key = key

\* INSERT INTO jobs (image_id, kind, status, dedupe_key, ...) RETURNING id.
\* The sequence value is drawn before the constraints are checked; the insert
\* fails on dedupe_key UNIQUE or on the foreign key to images.
ProcessInsert(u) ==
  /\ upc[u] = "process_insert"
  /\ jobseq' = jobseq + 1
  /\ LET key == DedupeKey(ureq[u].sha, ureq[u].pipeline)
     IN IF \/ jobs_dedupe_key_taken(jobs, key)
           \/ ureq[u].image \notin DOMAIN images
        THEN /\ Reply(u, Asked(Resp("500", NoId, FALSE),
                               ureq[u].image, ureq[u].pipeline))
             /\ UNCHANGED <<jobs, nclaims, notified>>
        ELSE /\ jobs' = jobs @@
                  (jobseq' :> NewJob(ureq[u].image, ureq[u].pipeline, key, now))
             /\ nclaims' = nclaims @@ (jobseq' :> 0)
             /\ notified' = notify_job_queued(notified, "queued")
             /\ upc' = [upc EXCEPT ![u] = "process_status"]
             /\ ureq' = [ureq EXCEPT ![u].job = jobseq']
             /\ UNCHANGED uresp
  /\ UNCHANGED <<now, images, events, imgseq, procvars, ret, calls, race, media, work>>

\* UPDATE images SET status = 'queued' WHERE id = $1
ProcessStatus(u) ==
  /\ upc[u] = "process_status"
  /\ images' = [i \in DOMAIN images |->
                  IF i = ureq[u].image THEN [images[i] EXCEPT !.status = "queued"]
                  ELSE images[i]]
  /\ upc' = [upc EXCEPT ![u] = "process_log"]
  /\ UNCHANGED <<now, jobs, events, imgseq, jobseq, procvars, ureq, uresp, ret,
                 calls, nclaims, race, notified, media, work>>

\* INSERT INTO events (image_id, type, data) VALUES ($1, 'queued', ...)
ProcessLog(u) ==
  /\ upc[u] = "process_log"
  /\ IF ureq[u].image \in DOMAIN images
     THEN /\ events' = AddEvent(events, Event(ureq[u].image, "queued", ureq[u].job,
                                              -1, ureq[u].pipeline))
          /\ Reply(u, Asked(Resp("ok", ureq[u].job, FALSE),
                            ureq[u].image, ureq[u].pipeline))
     ELSE /\ Reply(u, Asked(Resp("500", NoId, FALSE),
                            ureq[u].image, ureq[u].pipeline))
          /\ UNCHANGED events
  /\ UNCHANGED <<now, images, jobs, imgseq, jobseq, procvars, ret, calls, nclaims, race, notified, media, work>>

\* A jobs table whose rows outlive their image.
jobs_on_delete_keep(jobsT, id) == jobsT

\* DELETE FROM jobs WHERE image_id = $1, and
\* jobs.image_id REFERENCES images(id) ON DELETE CASCADE
jobs_on_delete(jobsT, id) ==
  [j \in {k \in DOMAIN jobsT : jobsT[k].image_id # id} |-> jobsT[j]]

\* DELETE FROM events WHERE image_id = $1, and
\* events.image_id REFERENCES images(id) ON DELETE CASCADE
events_on_delete(evs, id) ==
  [e \in {x \in DOMAIN evs : x.image_id # id} |-> evs[e]]

\* DELETE /images/:id: one transaction that deletes the image's jobs, its
\* events and the image; it waits for the row locks of its jobs.
DeleteImage ==
  /\ \E id \in DOMAIN images :
       /\ \A j \in DOMAIN jobs : jobs[j].image_id = id => RowFree(j)
       /\ jobs' = jobs_on_delete(jobs, id)
       /\ events' = events_on_delete(events, id)
       /\ images' = [i \in DOMAIN images \ {id} |-> images[i]]
  /\ UNCHANGED <<now, imgseq, jobseq, procvars, uservars, ret, calls, nclaims, race, notified, media, work>>

\* -------------------------------------------------------- the worker loop
\* processNext (called on a notification, on the poll timer, at start and
\* when a job ends): if (activeJobs.size >= config.concurrency) return;
\* otherwise SELECT * FROM claim_jobs(config.workerId, 1).
ProcessNextOf(p, concurrency) ==
  /\ Cardinality(activeJobs[WorkerOf(p)]) < concurrency
  /\ ClaimBegin(p, WorkerOf(p), ClaimBatch)
  /\ UNCHANGED <<now, dbvars, cur, errmsg, activeJobs, uservars, ret, calls,
                 nclaims, race, notified, media, work>>

\* processNext with the default PROCESSOR_CONCURRENCY.
ProcessNext(p) == ProcessNextOf(p, Concurrency)

\* The claim returns: with a row, activeJobs.add(job.id) and processJob(job)
\* starts; with none, processNext ends.
ProcessNextClaimed(p) ==
  /\ ClaimCommit(p)
  /\ IF tx[p].got # {}
     THEN \E j \in tx[p].got :
            /\ pc' = [pc EXCEPT ![p] = "load"]
            /\ cur' = [cur EXCEPT ![p] = j]
            /\ activeJobs' = [activeJobs EXCEPT ![WorkerOf(p)] = @ \cup {j}]
     ELSE /\ pc' = [pc EXCEPT ![p] = "idle"]
          /\ UNCHANGED <<cur, activeJobs>>
  /\ UNCHANGED <<errmsg, ret, calls, race, notified, media, work>>

JobImage(p) == IF cur[p] \in DOMAIN jobs THEN jobs[cur[p]].image_id ELSE NoId

\* processJob up to the call of complete_job: SELECT ... FROM images WHERE
\* id = job.image_id, where no row throws 'Image not found'; then
\* downloadFile, runDeface, fs.stat and uploadFile, each of which either
\* succeeds or throws, the first throw ending the try block.
JobRun(p) ==
  /\ pc[p] = "load"
  /\ IF JobImage(p) \in DOMAIN images
     THEN \/ /\ pc' = [pc EXCEPT ![p] = "complete"]
             /\ UNCHANGED errmsg
          \/ \E msg \in Messages :
               /\ pc' = [pc EXCEPT ![p] = "fail"]
               /\ errmsg' = [errmsg EXCEPT ![p] = msg]
     ELSE /\ pc' = [pc EXCEPT ![p] = "fail"]
          /\ errmsg' = [errmsg EXCEPT ![p] = ImageNotFound]
  /\ UNCHANGED <<now, dbvars, tx, cur, activeJobs, uservars, ret, calls, nclaims, race, notified, media, work>>

\* const processedPath = image.original_path.replace('originals/', 'processed/')
ProcessedPath(image_id) == "processed/" \o ToString(image_id)

\* await client.query('SELECT complete_job($1, $2)', [job.id, processedPath]);
\* a raised error is caught by processJob's catch.
JobComplete(p) ==
  /\ pc[p] = "complete"
  /\ RowFree(cur[p])
  /\ LET r == complete_job(DB, cur[p], ProcessedPath(JobImage(p)))
     IN /\ StoreDB(r.db)
        /\ IF r.val = "error"
           THEN /\ pc' = [pc EXCEPT ![p] = "fail"]
                /\ errmsg' = [errmsg EXCEPT ![p] = AmbiguousColumn]
           ELSE /\ pc' = [pc EXCEPT ![p] = "finally"]
                /\ UNCHANGED errmsg
  /\ UNCHANGED <<now, imgseq, jobseq, tx, cur, activeJobs, uservars, ret, calls,
                 nclaims, race, notified, media, work>>

\* catch (error): await client.query('SELECT fail_job($1, $2)', [job.id, error.message])
JobFail(p) ==
  /\ pc[p] = "fail"
  /\ RowFree(cur[p])
  /\ LET r == fail_job(DB, cur[p], errmsg[p], DefaultMaxAttempts, now)
     IN StoreDB(r.db)
  /\ pc' = [pc EXCEPT ![p] = "finally"]
  /\ UNCHANGED <<now, imgseq, jobseq, tx, cur, errmsg, activeJobs, uservars,
                 ret, calls, nclaims, race, notified, media, work>>

\* .finally(() => { activeJobs.delete(job.id); processNext(); })
JobFinally(p) ==
  /\ pc[p] = "finally"
  /\ activeJobs' = [activeJobs EXCEPT ![WorkerOf(p)] = @ \ {cur[p]}]
  /\ pc' = [pc EXCEPT ![p] = "idle"]
  /\ cur' = [cur EXCEPT ![p] = NoId]
  /\ errmsg' = [errmsg EXCEPT ![p] = NULL]
  /\ UNCHANGED <<now, dbvars, tx, uservars, ret, calls, nclaims, race, notified, media, work>>

\* ------------------------------------------- processJob, step by step
\* The steps JobRun takes as one, with the temp files they leave.
DownloadFailed == "Failed to download"
SpawnFailed == "Failed to spawn deface"
DefaceFailed == "deface failed with code 1"
DefaceKilled == "deface was killed by signal SIGKILL"
StatFailed == "ENOENT: no such file or directory, stat"
UploadFailed == "Failed to upload"

Fails(p, msg) ==
  /\ pc' = [pc EXCEPT ![p] = "fail"]
  /\ errmsg' = [errmsg EXCEPT ![p] = msg]

\* SELECT ... FROM images WHERE id = $1; no row throws 'Image not found'
\* before the temp paths are made and the inner try is entered.
JobImageQuery(p) ==
  /\ pc[p] = "load"
  /\ IF JobImage(p) \in DOMAIN images
     THEN /\ pc' = [pc EXCEPT ![p] = "download"]
          /\ work' = [work EXCEPT ![p] = [NoWork EXCEPT !.inner = TRUE]]
          /\ UNCHANGED errmsg
     ELSE /\ Fails(p, ImageNotFound)
          /\ work' = [work EXCEPT ![p] = NoWork]
  /\ UNCHANGED <<now, dbvars, tx, cur, activeJobs, uservars, ret, calls, nclaims,
                 race, notified, media>>

\* downloadFile(image.original_path, tempInput): the signed URL and the
\* fetch fail before a file is made; fs.writeFile may fail with part of it
\* written.
DownloadFile(p) ==
  /\ pc[p] = "download"
  /\ \/ /\ pc' = [pc EXCEPT ![p] = "deface"]
        /\ work' = [work EXCEPT ![p].input = "full"]
        /\ UNCHANGED errmsg
     \/ \E left \in {"none", "part"} :
          /\ Fails(p, DownloadFailed)
          /\ work' = [work EXCEPT ![p].input = left]
  /\ UNCHANGED <<now, dbvars, tx, cur, activeJobs, uservars, ret, calls, nclaims,
                 race, notified, media>>

\* What the filter may do: how it ends, and the output file it leaves.
DefaceRuns ==
  {[exit |-> "0", output |-> "full"], [exit |-> "0", output |-> "empty"],
   [exit |-> "0", output |-> "none"], [exit |-> "1", output |-> "none"],
   [exit |-> "1", output |-> "part"], [exit |-> "signal", output |-> "none"],
   [exit |-> "signal", output |-> "part"], [exit |-> "spawn", output |-> "none"]}

\* deface.on('close', (code, signal) => ...) and deface.on('error', ...):
\* NULL when the promise resolves, else the text of the rejection.
DefaceError(exit) ==
  IF exit = "spawn" THEN SpawnFailed
  ELSE IF exit = "signal" THEN DefaceKilled
       ELSE IF exit # "0" THEN DefaceFailed ELSE NULL

\* await runDeface(tempInput, tempOutput, defaceOptions)
RunDeface(p) ==
  /\ pc[p] = "deface"
  /\ \E run \in DefaceRuns :
       /\ work' = [work EXCEPT ![p].exit = run.exit, ![p].output = run.output]
       /\ IF DefaceError(run.exit) = NULL
          THEN /\ pc' = [pc EXCEPT ![p] = "stat"]
               /\ UNCHANGED errmsg
          ELSE Fails(p, DefaceError(run.exit))
  /\ UNCHANGED <<now, dbvars, tx, cur, activeJobs, uservars, ret, calls, nclaims,
                 race, notified, media>>

\* fs.stat(tempOutput) throws when there is no file; outputStats.isFile()
\* holds for a file of any size.
OutputFound(output) == output # "none"

\* const outputStats = await fs.stat(tempOutput); if (!outputStats.isFile()) ...
StatOutput(p) ==
  /\ pc[p] = "stat"
  /\ IF OutputFound(work[p].output)
     THEN /\ pc' = [pc EXCEPT ![p] = "upload"]
          /\ UNCHANGED errmsg
     ELSE Fails(p, StatFailed)
  /\ UNCHANGED <<now, dbvars, tx, cur, activeJobs, uservars, ret, calls, nclaims,
                 race, notified, media, work>>

\* await uploadFile(tempOutput, processedPath)
UploadFile(p) ==
  /\ pc[p] = "upload"
  /\ \/ /\ pc' = [pc EXCEPT ![p] = "complete"]
        /\ work' = [work EXCEPT ![p].uploaded = TRUE]
        /\ UNCHANGED errmsg
     \/ /\ Fails(p, UploadFailed)
        /\ UNCHANGED work
  /\ UNCHANGED <<now, dbvars, tx, cur, activeJobs, uservars, ret, calls, nclaims,
                 race, notified, media>>

\* The two unlinks in the other order.
unlink_output_first(w) ==
  IF w.output = "none" THEN w
  ELSE [w EXCEPT !.input = "none", !.output = "none"]

\* try { await fs.unlink(tempInput); await fs.unlink(tempOutput); }
\* catch (err) { }: the first unlink that finds no file ends the block.
unlink_temp_files(w) ==
  IF w.input = "none" THEN w
  ELSE [w EXCEPT !.input = "none", !.output = "none"]

\* The inner finally: it runs when the inner try is left, after
\* complete_job has returned or raised and before the outer catch.
Unlink(p) ==
  /\ pc[p] \in {"fail", "finally"}
  /\ work[p].inner
  /\ ~work[p].cleaned
  /\ work' = [work EXCEPT ![p] = [unlink_temp_files(@) EXCEPT !.cleaned = TRUE]]
  /\ UNCHANGED <<now, dbvars, procvars, uservars, ret, calls, nclaims, race,
                 notified, media>>

\* The inner try was not entered, or its finally has run.
Unlinked(p) == work[p].inner => work[p].cleaned

\* process.on('SIGTERM'): await listenClient.query('UNLISTEN jobs_channel'),
\* then the handler waits.  The poll timer is not cleared and the .finally
\* of processJob is not told: processNext goes on being called.
Sigterm(w) ==
  /\ pc[w] = "running"
  /\ pc' = [pc EXCEPT ![w] = "waiting"]
  /\ UNCHANGED <<now, dbvars, tx, cur, errmsg, activeJobs, uservars, ret, calls,
                 nclaims, race, notified, media, work>>

\* The invocations of worker w whose claim_jobs statement has run to its end
\* and has yet to return.
ClaimsEnding(w) == {p \in Procs : WorkerOf(p) = w /\ ClaimReady(p)}

\* while (activeJobs.size > 0) { ... setTimeout 1000 }; listenClient.release();
\* pool.end(); process.exit(0).  A claim_jobs statement in flight when the
\* process goes is either committed by the server, its rows returned to
\* nobody, or rolled back; the invocations of the worker end with it.
ShutdownExit(w) ==
  /\ pc[w] = "waiting"
  /\ activeJobs[w] = {}
  /\ \E done \in SUBSET ClaimsEnding(w) :
       LET got(j) == {p \in done : j \in tx[p].got}
       IN /\ jobs' = [j \in DOMAIN jobs |->
                        IF got(j) # {}
                        THEN LET p == CHOOSE q \in got(j) : TRUE
                             IN claim_set(jobs[j], tx[p].worker, tx[p].now)
                        ELSE jobs[j]]
          /\ nclaims' = [j \in DOMAIN nclaims |->
                           IF got(j) # {} THEN nclaims[j] + 1 ELSE nclaims[j]]
  /\ pc' = [x \in DOMAIN pc |->
              IF x = w \/ (x \in Procs /\ WorkerOf(x) = w) THEN "exited" ELSE pc[x]]
  /\ tx' = [p \in Procs |-> IF WorkerOf(p) = w THEN NoTx ELSE tx[p]]
  /\ UNCHANGED <<now, images, events, imgseq, jobseq, cur, errmsg, activeJobs,
                 uservars, ret, calls, race, notified, media, work>>

\* ------------------------------------------------------ the media service
SigningSecret == "dev-secret-change-in-production"
Methods == {"GET", "PUT"}
CapPaths == {"/originals/x", "/originals/x:1"}
Queries == {"", "?v=1"}
TtlArgs == {ShortTtl, DetailTtl, DefaultTtl}
NaN == -1                   \* parseInt of no number; no other use of -1 here

\* Date.now(), in milliseconds.
DateNow == now * 1000

\* The X-Expires header as sent: absent, or the digits it starts with
\* (none: NaN) and what follows them.
NoHeader == [present |-> FALSE, digits |-> NaN, rest |-> ""]
Header(n, rest) == [present |-> TRUE, digits |-> n, rest |-> rest]

\* parseInt(request.headers['x-expires']): the leading digits; what follows
\* them is dropped.
parseInt(h) == IF h.present THEN h.digits ELSE NaN

\* `${method}:${path}:${expires}` with the method of one verb only.
Message_path_only(method, path, expires) == path \o ":" \o ToString(expires)

\* `${method}:${path}:${expires}`
Message(method, path, expires) ==
  method \o ":" \o path \o ":" \o ToString(expires)

\* createHmac('sha256', secret).update(message).digest('hex'): taken as a
\* function of key and message under which no two inputs share a digest and
\* no digest is found without the key.  `altered` marks a string that
\* differs from the digest in some character.
Hmac(secret, message) == [key |-> secret, msg |-> message, altered |-> FALSE]
NoSig == [key |-> NULL, msg |-> NULL, altered |-> FALSE]

\* request.url.split('?')[0]
UrlPath(url) == url.path

\* Date.now() >= expires
Expired_at(datenow, expires) == datenow >= expires

\* Date.now() > expires
Expired(datenow, expires) == datenow > expires

\* The hook without its check of the expiry.
verifyHmac_no_expiry(request, datenow) ==
  LET signature == request.signature
      expires == parseInt(request.expires)
      expected == Hmac(SigningSecret,
                       Message(request.method, UrlPath(request.url), expires))
  IN IF signature = NoSig \/ expires = NaN \/ expires = 0
     THEN [code |-> "401", error |-> "Missing signature"]
     ELSE IF signature # expected
          THEN [code |-> "403", error |-> "Invalid signature"]
          ELSE [code |-> "ok", error |-> NULL]

\* verifyHmac: "ok" when the hook lets the request through.
verifyHmac(request, datenow) ==
  LET signature == request.signature
      expires == parseInt(request.expires)
      expected == Hmac(SigningSecret,
                       Message(request.method, UrlPath(request.url), expires))
  IN IF signature = NoSig \/ expires = NaN \/ expires = 0
     THEN [code |-> "401", error |-> "Missing signature"]
     ELSE IF Expired(datenow, expires)
          THEN [code |-> "403", error |-> "Signature expired"]
          ELSE IF signature # expected
               THEN [code |-> "403", error |-> "Invalid signature"]
               ELSE [code |-> "ok", error |-> NULL]

NoRequest == [method |-> NULL, url |-> [path |-> NULL, query |-> ""],
              signature |-> NoSig, expires |-> NoHeader]
NoAnswer == [request |-> NoRequest, at |-> 0, code |-> "none", error |-> NULL]
\* The files of MEDIA_ROOT: names bound to inodes, inodes holding chunks.
Clients == {"c1", "c2"}
UnderOriginals == {"/originals/x"}
UnderProcessed == {"/processed/x"}
StorePaths == UnderOriginals \cup UnderProcessed

\* `${fullPath}.tmp`
TempPath(fullPath) == fullPath \o ".tmp"

\* `${fullPath}.${writer}.tmp`: a temp path of the writer's own.
TempPath_own(fullPath, c) == fullPath \o "." \o c \o ".tmp"

\* tempPath = `${fullPath}.tmp`, whoever writes.
tempPath(fullPath, c) == TempPath(fullPath)

Names == StorePaths \cup {TempPath(f) : f \in StorePaths}
                    \cup {TempPath_own(f, c) : f \in StorePaths, c \in Clients}

\* request.body of client c, as the chunks fs.writeFile writes.
Body(c) == [k \in 1..Chunks |-> c]

NoWrite == [at |-> "idle", path |-> NULL, ino |-> NoId, off |-> 0]
NoRead == [path |-> NULL, status |-> "none", content |-> <<>>]
NoMedia == [caps |-> {}, last |-> NoAnswer,
            dir |-> [n \in Names |-> NoId], inodes |-> <<>>,
            wr |-> [c \in Clients |-> NoWrite], seen |-> NoRead, puts |-> 0]

\* POST /sign {method, path, expiresIn}
Sign(method, path, expiresIn) ==
  LET expires == DateNow + expiresIn * 1000
  IN [method |-> method, path |-> path, expires |-> expires,
      signature |-> Hmac(SigningSecret, Message(method, path, expires))]

Issue ==
  /\ Cardinality(media.caps) < MaxCaps
  /\ \E method \in Methods, path \in CapPaths, expiresIn \in TtlArgs :
       media' = [media EXCEPT !.caps = @ \cup {Sign(method, path, expiresIn)}]
  /\ UNCHANGED <<now, dbvars, procvars, uservars, ret, calls, nclaims, race, notified, work>>

\* What a client may send, knowing the capabilities issued: their headers
\* as issued, left out, or changed.
Signatures ==
  {NoSig} \cup {c.signature : c \in media.caps}
          \cup {[c.signature EXCEPT !.altered = TRUE] : c \in media.caps}
ExpiresHeaders ==
  {NoHeader} \cup {Header(c.expires, "") : c \in media.caps}
             \cup {Header(c.expires, "x") : c \in media.caps}
             \cup {Header(c.expires + 1, "") : c \in media.caps}
Requests ==
  [method : Methods, url : [path : CapPaths, query : Queries],
   signature : Signatures, expires : ExpiresHeaders]

\* A request to a route with preHandler: verifyHmac.
Verify ==
  /\ \E request \in Requests :
       LET v == verifyHmac(request, DateNow)
       IN media' = [media EXCEPT !.last = [request |-> request, at |-> DateNow,
                                           code |-> v.code, error |-> v.error]]
  /\ UNCHANGED <<now, dbvars, procvars, uservars, ret, calls, nclaims, race, notified, work>>

Answer(request, v) ==
  [request |-> request, at |-> DateNow, code |-> v.code, error |-> v.error]

\* What the clients of the file routes send: no capability, or the two
\* headers of one that was issued, for this request or for another.
StoreRequests(method, paths) ==
  {[method |-> method, url |-> [path |-> path, query |-> ""],
    signature |-> h.signature, expires |-> h.expires] :
     path \in paths,
     h \in {[signature |-> NoSig, expires |-> NoHeader]}
           \cup {[signature |-> c.signature, expires |-> Header(c.expires, "")] :
                    c \in media.caps}}

\* A hook that lets a capability through once.
preHandler_once(request, datenow) ==
  IF media.last.code = "ok" /\ media.last.request = request
  THEN [code |-> "403", error |-> "Signature used"]
  ELSE verifyHmac(request, datenow)

\* preHandler: verifyHmac
preHandler(request, datenow) == verifyHmac(request, datenow)

\* PUT /originals/* and PUT /processed/*: the hook, then fs.writeFile
\* opens tempPath with flag 'w', which makes the file or empties it.
Put(c) ==
  /\ media.wr[c].at = "idle"
  /\ \E request \in StoreRequests("PUT", StorePaths) :
       LET v == preHandler(request, DateNow)
           temp == tempPath(UrlPath(request.url), c)
           old == media.dir[temp]
           ino == IF old = NoId THEN Len(media.inodes) + 1 ELSE old
       IN IF v.code # "ok"
          THEN media' = [media EXCEPT !.last = Answer(request, v)]
          ELSE /\ media.puts < MaxPuts
               /\ media' =
                    [media EXCEPT
                       !.last = Answer(request, v),
                       !.puts = @ + 1,
                       !.dir[temp] = ino,
                       !.inodes = IF old = NoId THEN Append(@, <<>>)
                                  ELSE [@ EXCEPT ![old] = <<>>],
                       !.wr[c] = [at |-> "write", path |-> UrlPath(request.url),
                                  ino |-> ino, off |-> 0]]
  /\ UNCHANGED <<now, dbvars, procvars, uservars, ret, calls, nclaims, race, notified, work>>

\* A write of `chunk` at offset `off` of a file.
WriteAt(content, off, chunk) ==
  IF Len(content) > off THEN [content EXCEPT ![off + 1] = chunk]
  ELSE [k \in 1..(off + 1) |->
          IF k <= Len(content) THEN content[k]
          ELSE IF k = off + 1 THEN chunk ELSE "hole"]

\* fs.writeFile goes on: the next chunk through the open descriptor.
PutWrite(c) ==
  /\ media.wr[c].at = "write"
  /\ LET w == media.wr[c]
     IN media' =
          [media EXCEPT
             !.inodes[w.ino] = WriteAt(@, w.off, Body(c)[w.off + 1]),
             !.wr[c] = [w EXCEPT !.off = @ + 1,
                                 !.at = IF w.off + 1 = Chunks THEN "rename"
                                        ELSE "write"]]
  /\ UNCHANGED <<now, dbvars, procvars, uservars, ret, calls, nclaims, race, notified, work>>

\* fs.rename(tempPath, fullPath); ENOENT when tempPath is gone.
PutRename(c) ==
  /\ media.wr[c].at = "rename"
  /\ LET w == media.wr[c]
         temp == tempPath(w.path, c)
     IN media' =
          IF media.dir[temp] = NoId
          THEN [media EXCEPT !.wr[c] = NoWrite]
          ELSE [media EXCEPT
                  !.dir = [@ EXCEPT ![w.path] = media.dir[temp], ![temp] = NoId],
                  !.wr[c] = NoWrite]
  /\ UNCHANGED <<now, dbvars, procvars, uservars, ret, calls, nclaims, race, notified, work>>

\* The media service dies with uploads under way and is started again.
MediaCrash ==
  /\ \E c \in Clients : media.wr[c].at # "idle"
  /\ media' = [media EXCEPT !.wr = [c \in Clients |-> NoWrite]]
  /\ UNCHANGED <<now, dbvars, procvars, uservars, ret, calls, nclaims, race, notified, work>>

\* fs.readFile(fullPath)
ReadFile(fullPath) ==
  IF media.dir[fullPath] = NoId
  THEN [path |-> fullPath, status |-> "404", content |-> <<>>]
  ELSE [path |-> fullPath, status |-> "200",
        content |-> media.inodes[media.dir[fullPath]]]

\* GET /originals/*: the hook, then the file.
GetOriginal ==
  /\ \E request \in StoreRequests("GET", UnderOriginals) :
       LET v == preHandler(request, DateNow)
       IN media' =
            IF v.code # "ok"
            THEN [media EXCEPT !.last = Answer(request, v)]
            ELSE [media EXCEPT !.last = Answer(request, v),
                               !.seen = ReadFile(UrlPath(request.url))]
  /\ UNCHANGED <<now, dbvars, procvars, uservars, ret, calls, nclaims, race, notified, work>>

\* GET /processed/*: fastifyStatic, no hook.
GetProcessed ==
  /\ \E fullPath \in UnderProcessed :
       media' = [media EXCEPT !.seen = ReadFile(fullPath)]
  /\ UNCHANGED <<now, dbvars, procvars, uservars, ret, calls, nclaims, race, notified, work>>

\* --------------------------------------------------------- specifications
NoRace == [state |-> "ready", batch |-> 0, rows |-> {}, live |-> {}]

\* The state after construction: empty tables, nothing running.
Init ==
  /\ now = 0
  /\ images = <<>>
  /\ jobs = <<>>
  /\ events = EmptyBag
  /\ imgseq = 0
  /\ jobseq = 0
  /\ pc = [x \in Procs \cup Workers |-> IF x \in Procs THEN "idle" ELSE "running"]
  /\ tx = [p \in Procs |-> NoTx]
  /\ cur = [p \in Procs |-> NoId]
  /\ errmsg = [p \in Procs |-> NULL]
  /\ activeJobs = [w \in Workers |-> {}]
  /\ upc = [u \in Users |-> "idle"]
  /\ ureq = [u \in Users |-> NoReq]
  /\ uresp = [u \in Users |-> NoResp]
  /\ ret = NoCall
  /\ calls = 0
  /\ nclaims = <<>>
  /\ race = [p \in Procs |-> NoRace]
  /\ notified = 0
  /\ media = NoMedia
  /\ work = [p \in Procs |-> NoWork]

Producer ==
  \E u \in SystemUsers :
    \/ UploadInit(u)
    \/ UploadInsert(u)
    \/ UploadLog(u)
    \/ ProcessRequest(u)
    \/ ProcessCheck(u)
    \/ ProcessInsert(u)
    \/ ProcessStatus(u)
    \/ ProcessLog(u)

Worker ==
  \E p \in SystemProcs :
    \/ ProcessNext(p)
    \/ ClaimScanRow(p)
    \/ ProcessNextClaimed(p)
    \/ JobRun(p)
    \/ JobComplete(p)
    \/ JobFail(p)
    \/ JobFinally(p)

\* The system: producers, workers, the clock.
Next ==
  \/ Producer
  \/ Worker
  \/ Tick

Spec == Init /\ [][Next]_vars

\* Uploads with any processing_options, process requests and deletes.
NextOptions ==
  \/ \E u \in Users :
       \/ UploadInitFrom(u, MaxUploads, OptionArgs)
       \/ UploadInsert(u)
       \/ UploadLog(u)
       \/ ProcessRequest(u)
       \/ ProcessCheck(u)
       \/ ProcessInsert(u)
       \/ ProcessStatus(u)
       \/ ProcessLog(u)
  \/ DeleteImage

SpecOptions == Init /\ [][NextOptions]_vars

\* The system with images deleted at any moment.
NextDelete ==
  \/ Next
  \/ DeleteImage

SpecDelete == Init /\ [][NextDelete]_vars

\* What one processNext invocation does next: the poll timer (setInterval,
\* every 10 s) and the .finally of processJob call processNext again and
\* again, and every awaited query and file operation returns.
WorkerStep(p) ==
  \/ ProcessNext(p)
  \/ ClaimScanRow(p)
  \/ ProcessNextClaimed(p)
  \/ JobRun(p)
  \/ JobComplete(p)
  \/ JobFail(p)
  \/ JobFinally(p)

\* The system with workers that stay alive: no step of a worker that can be
\* taken is put off for ever.  Nothing is assumed of the producers or of
\* the clock, and no notification is needed for ProcessNext to run.
SpecLive == Init /\ [][Next]_vars /\ \A p \in SystemProcs : WF_vars(WorkerStep(p))

\* SpecLive with a clock that keeps going (up to MaxNow).
SpecLiveClock == SpecLive /\ WF_vars(Tick)

Caller ==
  \E p \in CallerProcs :
    \/ CallClaim(p)
    \/ ClaimScanRow(p)
    \/ CallClaimReturn(p)

\* The engine under direct calls, in any order and with any arguments.
NextEngine ==
  \/ DeleteImage
  \/ Caller
  \/ CallComplete
  \/ CallFail
  \/ Tick

\* The tables after n uploads, each followed by POST /images/:id/process
\* with the default pipeline at the time at[i]: image i holds content hash i
\* and job i.
Enqueued(n, at) ==
  /\ images = [i \in 1..n |-> [NewImage(i, i) EXCEPT !.status = "queued"]]
  /\ jobs = [j \in 1..n |->
               NewJob(j, "deface_boxes", DedupeKey(j, "deface_boxes"), at[j])]
  /\ events = SetToBag({Event(i, "uploaded", NoId, -1, NULL) : i \in 1..n}
                 \cup {Event(i, "queued", i, -1, "deface_boxes") : i \in 1..n})
  /\ imgseq = n
  /\ jobseq = n
  /\ nclaims = [j \in 1..n |-> 0]
  /\ notified = n

Idle ==
  /\ pc = [x \in Procs \cup Workers |-> IF x \in Procs THEN "idle" ELSE "running"]
  /\ tx = [p \in Procs |-> NoTx]
  /\ cur = [p \in Procs |-> NoId]
  /\ errmsg = [p \in Procs |-> NULL]
  /\ activeJobs = [w \in Workers |-> {}]
  /\ upc = [u \in Users |-> "idle"]
  /\ ureq = [u \in Users |-> NoReq]
  /\ uresp = [u \in Users |-> NoResp]
  /\ ret = NoCall
  /\ calls = 0
  /\ race = [p \in Procs |-> NoRace]
  /\ work = [p \in Procs |-> NoWork]

Quiet == Idle /\ media = NoMedia

\* The tables of Enqueued after job 1 was claimed by w1 and failed once with
\* the default max_attempts, both at time 0.
FailedOnce(n, at) ==
  LET fresh == [j \in 1..n |->
                  NewJob(j, "deface_boxes", DedupeKey(j, "deface_boxes"), at[j])]
      claimed == claim_update(fresh, {1}, "w1", 0)
      db0 == [images |-> [i \in 1..n |-> [NewImage(i, i) EXCEPT !.status = "queued"]],
              jobs |-> claimed,
              events |-> SetToBag({Event(i, "uploaded", NoId, -1, NULL) : i \in 1..n}
                           \cup {Event(i, "queued", i, -1, "deface_boxes") : i \in 1..n})]
      r == fail_job(db0, 1, "timeout", DefaultMaxAttempts, 0)
  IN /\ images = r.db.images
     /\ jobs = r.db.jobs
     /\ events = r.db.events
     /\ imgseq = n
     /\ jobseq = n
     /\ nclaims = [j \in 1..n |-> IF j = 1 THEN 1 ELSE 0]
     /\ notified = n

\* The engine under direct calls: EngineJobs jobs were enqueued at time 0,
\* and job 1 is either fresh or has failed once.
InitEngine ==
  /\ now = 0
  /\ \/ Enqueued(EngineJobs, [j \in 1..EngineJobs |-> 0])
     \/ FailedOnce(EngineJobs, [j \in 1..EngineJobs |-> 0])
  /\ Quiet

SpecEngine == InitEngine /\ [][NextEngine]_vars

\* K callers, one claim_jobs call each, against M jobs that are all ready.
InitRace ==
  /\ now = BackoffSeconds
  /\ \E n \in 1..RaceJobs :
       \E at \in [1..n -> {0, BackoffSeconds}] : Enqueued(n, at)
  /\ Quiet

RaceClaim(p) ==
  /\ race[p].state = "ready"
  /\ \E n \in 1..MaxBatch :
       /\ ClaimBegin(p, WorkerOf(p), n)
       /\ race' = [race EXCEPT ![p] = [state |-> "running", batch |-> n,
                                       rows |-> {}, live |-> {}]]
  /\ UNCHANGED <<now, dbvars, cur, errmsg, activeJobs, uservars, ret, calls,
                 nclaims, notified, media, work>>

RaceReturn(p) ==
  /\ ClaimCommit(p)
  /\ pc' = [pc EXCEPT ![p] = "idle"]
  /\ race' = [race EXCEPT ![p].state = "done", ![p].rows = tx[p].got,
                          ![p].live = {q \in Procs \ {p} : pc[q] = "scan"}]
  /\ UNCHANGED <<cur, errmsg, activeJobs, ret, calls>>

NextRace ==
  \E p \in Procs :
    \/ RaceClaim(p)
    \/ ClaimScanRow(p)
    \/ RaceReturn(p)

SpecRace == InitRace /\ [][NextRace]_vars

\* The tables after n uploads (upload-init and the PUT of the file), before
\* any POST /images/:id/process.
Uploaded(n) ==
  /\ images = [i \in 1..n |-> NewImage(i, i)]
  /\ jobs = <<>>
  /\ events = SetToBag({Event(i, "uploaded", NoId, -1, NULL) : i \in 1..n})
  /\ imgseq = n
  /\ jobseq = 0
  /\ nclaims = <<>>
  /\ notified = 0

InitEnqueue ==
  /\ now = 0
  /\ Uploaded(MaxImages)
  /\ Quiet

\* Concurrent POST /images/:id/process requests, and the clock.
NextEnqueue ==
  \/ \E u \in Users :
       \/ ProcessRequest(u)
       \/ ProcessCheck(u)
       \/ ProcessInsert(u)
       \/ ProcessStatus(u)
       \/ ProcessLog(u)
  \/ Tick

SpecEnqueue == InitEnqueue /\ [][NextEnqueue]_vars

\* Concurrent POST /upload-init requests, and DELETE /images/:id.
NextUpload ==
  \/ \E u \in Users :
       \/ UploadInitUpTo(u, MaxUploads)
       \/ UploadInsert(u)
       \/ UploadLog(u)
  \/ DeleteImage

SpecUpload == Init /\ [][NextUpload]_vars

\* One worker: its processNext invocations (a notification, the poll timer
\* and the end of a job each start one), its SIGTERM handler, the clock.
WorkerProcs == {p \in Procs : WorkerOf(p) = "w1"}

InitWorker ==
  /\ now = 0
  /\ Enqueued(EngineJobs, [j \in 1..EngineJobs |-> 0])
  /\ Quiet

NextWorker ==
  \/ \E p \in WorkerProcs : WorkerStep(p)
  \/ Sigterm("w1")
  \/ ShutdownExit("w1")
  \/ Tick

SpecWorker == InitWorker /\ [][NextWorker]_vars

\* One worker started with PROCESSOR_CONCURRENCY = WakeConcurrency, and
\* as many jobs ready at time 0.
InitWake ==
  /\ now = 0
  /\ Enqueued(WakeConcurrency, [j \in 1..WakeConcurrency |-> 0])
  /\ Quiet

NextWake ==
  \/ \E p \in WorkerProcs :
       \/ ProcessNextOf(p, WakeConcurrency)
       \/ ClaimScanRow(p)
       \/ ProcessNextClaimed(p)
       \/ JobRun(p)
       \/ JobComplete(p)
       \/ JobFail(p)
       \/ JobFinally(p)
  \/ Tick

SpecWake == InitWake /\ [][NextWake]_vars

\* The media service's capabilities: issued, presented, and the clock.
NextCap ==
  \/ Issue
  \/ Verify
  \/ Tick

InitCap ==
  /\ now = 0
  /\ Uploaded(MaxImages)
  /\ Quiet

SpecCap == InitCap /\ [][NextCap]_vars

\* The media service's files.  Three capabilities were issued at time 0:
\* a short one to upload an original, the detail view's to read it, and the
\* worker's to upload the result.
StoreCaps ==
  {Sign("PUT", "/originals/x", ShortTtl),
   Sign("GET", "/originals/x", DetailTtl),
   Sign("PUT", "/processed/x", DefaultTtl)}

InitStore ==
  /\ now = 0
  /\ Uploaded(MaxImages)
  /\ Idle
  /\ media = [NoMedia EXCEPT !.caps = StoreCaps]

NextStore ==
  \/ \E c \in Clients : Put(c)
  \/ \E c \in Clients : PutWrite(c)
  \/ \E c \in Clients : PutRename(c)
  \/ MediaCrash
  \/ GetOriginal
  \/ GetProcessed
  \/ Tick

SpecStore == InitStore /\ [][NextStore]_vars

\* One processNext invocation that takes processJob step by step, on one
\* job enqueued at time 0 whose image may be deleted.
InitJob ==
  /\ now = 0
  /\ Enqueued(MaxImages, [j \in 1..MaxImages |-> 0])
  /\ Quiet

NextJob ==
  \/ \E p \in CallerProcs :
       \/ ProcessNext(p)
       \/ ClaimScanRow(p)
       \/ ProcessNextClaimed(p)
       \/ JobImageQuery(p)
       \/ DownloadFile(p)
       \/ RunDeface(p)
       \/ StatOutput(p)
       \/ UploadFile(p)
       \/ JobComplete(p)
       \/ Unlink(p)
       \/ Unlinked(p) /\ JobFail(p)
       \/ Unlinked(p) /\ JobFinally(p)
  \/ DeleteImage
  \/ Tick

SpecJob == InitJob /\ [][NextJob]_vars

\* ================================================================ claims
\* Steps of SpecEngine, told by what they change.
ClaimReturns(p) == pc[p] = "scan" /\ pc'[p] = "idle"
CompleteCalled(id) ==
  calls' = calls + 1 /\ pc' = pc /\ ret'.op = "complete" /\ ret'.id = id
FailCalled(id) ==
  calls' = calls + 1 /\ pc' = pc /\ ret'.op = "fail" /\ ret'.id = id

RECURSIVE SumBatch(_)
SumBatch(S) ==
  IF S = {} THEN 0
  ELSE LET p == CHOOSE x \in S : TRUE IN race[p].batch + SumBatch(S \ {p})

RaceOver == \A p \in Procs : race[p].state = "done"
RaceReturned == UNION {race[p].rows : p \in Procs}

\* C1: no job is returned by more than one of the claim_jobs calls, and when
\* every caller has returned and the batch sizes add up to at least the
\* number of ready jobs, every job was returned (so exactly once).
C1_ClaimedOnce ==
  /\ \A p, q \in Procs : p # q => race[p].rows \cap race[q].rows = {}
  /\ (RaceOver /\ SumBatch(Procs) >= Cardinality(DOMAIN jobs))
       => RaceReturned = DOMAIN jobs

\* Three jobs, all returned, by calls of which one returned its rows while
\* another call, which also returned rows, was still running.
C1_Witness ==
  /\ RaceOver
  /\ Cardinality(DOMAIN jobs) = RaceJobs
  /\ RaceReturned = DOMAIN jobs
  /\ \E p \in Procs : \E q \in race[p].live :
       race[p].rows # {} /\ race[q].rows # {}

\* A worker is between a claim and its report while processJob runs on the
\* row up to the return of fail_job or of a complete_job that did not raise.
Holding(p) == pc[p] \in {"load", "complete", "fail"}

\* C2: no two workers are at the same time between the claim of one job and
\* their report of it.
C2_OneClaimant ==
  \A p, q \in Procs :
    (WorkerOf(p) # WorkerOf(q) /\ Holding(p) /\ Holding(q)) => cur[p] # cur[q]

\* A worker holds a job on its second or later attempt while a claim of the
\* other worker, whose snapshot still offers that job, is running.
C2_Witness ==
  \E p, q \in Procs :
    /\ WorkerOf(p) # WorkerOf(q)
    /\ Holding(p)
    /\ cur[p] \in DOMAIN jobs
    /\ jobs[cur[p]].attempts >= 2
    /\ pc[q] = "scan"
    /\ cur[p] \in {c.id : c \in tx[q].cand}

\* C3: a claim_jobs call returns at most batch_size rows; each returned row
\* was queued with run_at <= NOW() and becomes processing, claimed by the
\* caller at NOW(), with attempts one higher; every other row and every
\* other table is left as it was; with nothing eligible nothing is returned.
C3_ClaimContract ==
  [][\A p \in Procs : ClaimReturns(p) =>
       LET t == tx[p]
           R == ret'.rows
       IN /\ ret'.op = "claim"
          /\ Cardinality(R) <= t.limit
          /\ R \subseteq DOMAIN jobs
          /\ DOMAIN jobs' = DOMAIN jobs
          /\ \A j \in R :
               /\ jobs[j].status = "queued"
               /\ jobs[j].run_at <= t.now
               /\ jobs'[j] = [jobs[j] EXCEPT !.status = "processing",
                                             !.claimed_by = t.worker,
                                             !.claimed_at = t.now,
                                             !.attempts = jobs[j].attempts + 1]
          /\ \A j \in DOMAIN jobs \ R : jobs'[j] = jobs[j]
          /\ images' = images
          /\ events' = events
          /\ (\A j \in DOMAIN jobs :
                ~(jobs[j].status = "queued" /\ jobs[j].run_at <= t.now))
               => (R = {} /\ jobs' = jobs)]_vars

\* A call has returned a full batch and left an eligible job queued.
C3_Witness ==
  /\ ret.op = "claim"
  /\ ret.rows # {}
  /\ Cardinality(ret.rows) = ret.num
  /\ \A j \in ret.rows :
       j \in DOMAIN jobs /\ jobs[j].status = "processing"
         /\ jobs[j].claimed_by = ret.text /\ jobs[j].attempts >= 1
  /\ \E k \in DOMAIN jobs \ ret.rows :
       jobs[k].status = "queued" /\ jobs[k].run_at <= now

\* C4: the first complete_job call on a job returns true; a second call on
\* the same job returns false, changes nothing and writes no event, and
\* leaves the image done with its processed_path set.
C4_CompleteTwice ==
  [][\A id \in DOMAIN jobs :
       /\ (CompleteCalled(id) /\ jobs[id].status # "done") => ret'.val = "true"
       /\ (CompleteCalled(id) /\ ret.op = "complete" /\ ret.id = id
             /\ ret.val = "true")
            => /\ ret'.val = "false"
               /\ UNCHANGED <<images, jobs, events>>
               /\ images'[jobs[id].image_id].status = "done"
               /\ images'[jobs[id].image_id].processed_path # NULL]_vars

\* C5: complete_job on an id without a row returns false and changes no
\* table.
C5_CompleteMissing ==
  [][\A id \in 1..jobseq :
       (CompleteCalled(id) /\ id \notin DOMAIN jobs)
         => (ret'.val = "false" /\ UNCHANGED <<images, jobs, events>>)]_vars

\* complete_job, with a result path, has returned false for a job that was
\* enqueued and whose image was deleted since.
C5_Witness ==
  /\ ret.op = "complete"
  /\ ret.val = "false"
  /\ ret.text # NULL
  /\ ret.id \in 1..jobseq
  /\ ret.id \notin DOMAIN jobs

\* C6: complete_job on an existing job sets it done and writes one
\* job_completed event with the job id and the path; with a path it sets
\* the image's processed_path and status done, without one it leaves the
\* images alone.
C6_CompleteContract ==
  [][\A id \in DOMAIN jobs : CompleteCalled(id) =>
       LET img == jobs[id].image_id
           path == ret'.text
       IN /\ ret'.val = "true"
          /\ jobs' = [jobs EXCEPT ![id].status = "done"]
          /\ events' = AddEvent(events, Event(img, "job_completed", id, -1, path))
          /\ IF path # NULL
             THEN images' = [images EXCEPT ![img].processed_path = path,
                                           ![img].status = "done"]
             ELSE images' = images]_vars

WorkerFailed(p) == pc[p] = "fail" /\ pc'[p] = "finally"

\* C8: with the default max_attempts a job is returned by claim_jobs at most
\* three times: fail_job after the first or second claim re-queues it,
\* fail_job after the third makes it failed, and a failed job is not
\* returned again.
C8_AtMostThreeClaims ==
  [][/\ \A j \in DOMAIN nclaims' : nclaims'[j] <= DefaultMaxAttempts
     /\ \A p \in Procs :
          (WorkerFailed(p) /\ cur[p] \in DOMAIN jobs) =>
             jobs'[cur[p]].status =
               IF nclaims[cur[p]] < DefaultMaxAttempts THEN "queued" ELSE "failed"
     /\ \A j \in DOMAIN jobs :
          jobs[j].status = "failed" =>
             (nclaims'[j] = nclaims[j] /\ jobs'[j].status = "failed")]_vars

\* A job has been claimed three times and is failed.
C8_Witness ==
  \E j \in DOMAIN jobs :
    /\ nclaims[j] = DefaultMaxAttempts
    /\ jobs[j].status = "failed"
    /\ jobs[j].attempts = DefaultMaxAttempts

C10_FailOneEvent ==
  [][\A id \in DOMAIN jobs : FailCalled(id) =>
       LET img == jobs[id].image_id
           one(t) == EventCount(events', img, t) = EventCount(events, img, t) + 1
           none(t) == EventCount(events', img, t) = EventCount(events, img, t)
       IN /\ BagCardinality(events') = BagCardinality(events) + 1
          /\ ret'.val \in {"failed", "retry"}
          /\ ret'.val = "failed" => (one("job_failed") /\ none("job_retry"))
          /\ ret'.val = "retry" => (one("job_retry") /\ none("job_failed"))]_vars

\* Both kinds of event have been written for one image, one of each.
C10_Witness ==
  /\ ret.op = "fail"
  /\ ret.val = "failed"
  /\ ret.id \in DOMAIN jobs
  /\ EventCount(events, jobs[ret.id].image_id, "job_failed") = 1
  /\ EventCount(events, jobs[ret.id].image_id, "job_retry") = 1

\* A step in which request slot u answers a POST /images/:id/process.
EnqueueAnswered(u) ==
  upc'[u] = "idle" /\ uresp'[u] # uresp[u] /\ uresp'[u].pipeline # NULL

\* The jobs rows that hold the dedupe key of image i and a pipeline.
JobsOfKey(i, pipeline) ==
  {j \in DOMAIN jobs : jobs[j].dedupe_key = DedupeKey(images[i].sha256, pipeline)}

\* C11: with one producer, whose requests follow one another, a POST
\* /images/:id/process for an image and pipeline whose dedupe key already has
\* a job answers with that job's id and duplicate: true, and the key keeps
\* exactly one row.
C11_EnqueueTwice ==
  [][\A u \in Users :
       (EnqueueAnswered(u) /\ uresp'[u].image \in DOMAIN images) =>
          LET had == JobsOfKey(uresp'[u].image, uresp'[u].pipeline) \ {ureq[u].job}
          IN had # {} =>
               /\ uresp'[u].code = "ok"
               /\ uresp'[u].duplicate
               /\ uresp'[u].id \in had
               /\ Cardinality(JobsOfKey(uresp'[u].image, uresp'[u].pipeline)) = 1]_vars

\* C12: a request that has passed the status checks while another request of
\* the same key is under way does not fail: it answers ok, either with the
\* job it created or with the existing job's id and duplicate: true.
C12_ConcurrentEnqueue ==
  [][\A u \in Users :
       (upc[u] \in {"process_check", "process_insert"} /\ upc'[u] = "idle") =>
          /\ uresp'[u].code = "ok"
          /\ uresp'[u].duplicate
          /\ uresp'[u].id \in JobsOfKey(ureq[u].image, ureq[u].pipeline)]_vars

\* C13: no two rows of jobs hold the same dedupe_key.
C13_OneRowPerKey ==
  \A j, k \in DOMAIN jobs :
    jobs[j].dedupe_key = jobs[k].dedupe_key => j = k

\* Two requests of one key both reached the INSERT; the second was rejected
\* and the key has its one row.
C13_Witness ==
  \E u \in Users :
    /\ uresp[u].code = "500"
    /\ uresp[u].image \in DOMAIN images
    /\ Cardinality(JobsOfKey(uresp[u].image, uresp[u].pipeline)) = 1
    /\ jobseq = 2

\* C14: the INSERT of a successful POST /images/:id/process adds one row of
\* jobs, queued, with run_at = NOW(), attempts 0 and no claimant, for the
\* image and pipeline asked; the request then writes one 'queued' event for
\* the image and answers with the job's id; no request answers ok without
\* duplicate in another way.
C14_EnqueueContract ==
  [][\A u \in Users :
       /\ (upc[u] = "process_insert" /\ upc'[u] = "process_status") =>
            LET j == jobseq'
            IN /\ j \notin DOMAIN jobs
               /\ DOMAIN jobs' = DOMAIN jobs \cup {j}
               /\ \A k \in DOMAIN jobs : jobs'[k] = jobs[k]
               /\ jobs'[j].image_id = ureq[u].image
               /\ jobs'[j].kind = ureq[u].pipeline
               /\ jobs'[j].status = "queued"
               /\ jobs'[j].run_at = now
               /\ jobs'[j].attempts = 0
               /\ jobs'[j].claimed_by = NULL
               /\ jobs'[j].claimed_at = NullTime
               /\ ureq'[u].job = j
               /\ events' = events
       /\ (EnqueueAnswered(u) /\ uresp'[u].code = "ok" /\ ~uresp'[u].duplicate) =>
            /\ upc[u] = "process_log"
            /\ uresp'[u].id = ureq[u].job
            /\ jobs' = jobs
            /\ events' = AddEvent(events, Event(ureq[u].image, "queued", ureq[u].job,
                                                -1, ureq[u].pipeline))
            /\ EventCount(events', ureq[u].image, "queued")
                 = EventCount(events, ureq[u].image, "queued") + 1]_vars

\* A request made at a later time than 0 was answered with the id of the job
\* it created, which is queued for that time, and its one event is written.
C14_Witness ==
  \E u \in Users :
    /\ uresp[u].code = "ok"
    /\ ~uresp[u].duplicate
    /\ uresp[u].id \in DOMAIN jobs
    /\ jobs[uresp[u].id].status = "queued"
    /\ jobs[uresp[u].id].run_at > 0
    /\ jobs[uresp[u].id].attempts = 0
    /\ EventCount(events, uresp[u].image, "queued") = 1

\* C15: for every job, claimed_by and claimed_at are set exactly when its
\* status is processing.
C15_ClaimantIffProcessing ==
  \A j \in DOMAIN jobs :
    /\ (jobs[j].claimed_by # NULL) <=> (jobs[j].status = "processing")
    /\ (jobs[j].claimed_at # NullTime) <=> (jobs[j].status = "processing")

\* C16: a job's attempts never fall; they change only when claim_jobs
\* returns the job, and then by one; fail_job and complete_job leave every
\* job's attempts as they were.
C16_AttemptsByClaim ==
  [][/\ \A j \in DOMAIN jobs \cap DOMAIN jobs' :
          /\ jobs'[j].attempts >= jobs[j].attempts
          /\ jobs'[j].attempts # jobs[j].attempts =>
               /\ jobs'[j].attempts = jobs[j].attempts + 1
               /\ \E p \in Procs : ClaimReturns(p) /\ j \in ret'.rows
     /\ \A p \in Procs : ClaimReturns(p) =>
          \A j \in ret'.rows : jobs'[j].attempts = jobs[j].attempts + 1
     /\ \A id \in 1..MaxJobs : (FailCalled(id) \/ CompleteCalled(id)) =>
          \A j \in DOMAIN jobs :
            j \in DOMAIN jobs' /\ jobs'[j].attempts = jobs[j].attempts]_vars

\* A job that was claimed and failed has been claimed again: attempts 2.
C16_Witness ==
  /\ ret.op = "claim"
  /\ \E j \in ret.rows :
       /\ j \in DOMAIN jobs
       /\ jobs[j].attempts = 2
       /\ nclaims[j] = 2
       /\ jobs[j].error_log # NULL

\* C17: no step moves a job's run_at to an earlier time.
C17_RunAtForward ==
  [][\A j \in DOMAIN jobs \cap DOMAIN jobs' :
       jobs'[j].run_at >= jobs[j].run_at]_vars

\* fail_job was called a second time, ten seconds after the first, on a job
\* claimed once: run_at moved from 10 to 20.
C17_Witness ==
  /\ ret.op = "fail"
  /\ ret.val = "retry"
  /\ ret.id \in DOMAIN jobs
  /\ nclaims[ret.id] = 1
  /\ jobs[ret.id].attempts = 1
  /\ now = BackoffSeconds
  /\ jobs[ret.id].run_at = 2 * BackoffSeconds

\* The jobs of the default pipeline of image i.
DefaultJobs(i) ==
  {j \in DOMAIN jobs : jobs[j].image_id = i /\ jobs[j].kind = "deface_boxes"}

\* C18: an image that has jobs of the default pipeline has the status of
\* the most recent of them.
C18_StatusAgrees ==
  \A i \in DOMAIN images :
    DefaultJobs(i) # {} =>
      LET last == CHOOSE j \in DefaultJobs(i) : \A k \in DefaultJobs(i) : k <= j
      IN images[i].status = jobs[last].status

\* C19: the insert of a job by POST /images/:id/process and every fail_job
\* call that returns retry publish one notification on jobs_channel.
C19_NotifyOnQueue ==
  [][/\ \A u \in Users :
          (upc[u] = "process_insert" /\ upc'[u] = "process_status")
            => notified' = notified + 1
     /\ \A id \in DOMAIN jobs :
          (FailCalled(id) /\ ret'.val = "retry") => notified' = notified + 1]_vars

\* C20: with workers that keep polling, a job that is queued with
\* run_at <= NOW() is eventually claimed (its status becomes processing).
C20_EventuallyClaimed ==
  \A j \in 1..MaxJobs :
    (j \in DOMAIN jobs /\ jobs[j].status = "queued" /\ jobs[j].run_at <= now)
      ~> (j \in DOMAIN jobs /\ jobs[j].status = "processing")

\* A job re-queued by fail_job, for which nothing was published, has been
\* claimed again once its run_at had come: one notification, two claims.
C20_Witness ==
  \E j \in DOMAIN jobs :
    /\ jobs[j].status = "processing"
    /\ jobs[j].attempts = 2
    /\ jobs[j].claimed_at >= BackoffSeconds
    /\ notified = 1

\* C29: claim_jobs returns no job while it leaves another job that is
\* eligible and not locked and that has an earlier run_at, or the same
\* run_at and a smaller id.
C29_ClaimOrder ==
  [][\A p \in Procs : ClaimReturns(p) =>
       \A j \in ret'.rows : \A k \in DOMAIN jobs \ ret'.rows :
         (claim_qual(jobs[k], tx[p].now) /\ ~LockedByOther(k, p)) =>
            ~ \/ jobs[k].run_at < jobs[j].run_at
              \/ (jobs[k].run_at = jobs[j].run_at /\ k < j)]_vars

\* C30: no two rows of images hold the same sha256.
C30_OneImagePerHash ==
  \A i, k \in DOMAIN images :
    images[i].sha256 = images[k].sha256 => i = k

\* C21: with workers that keep running and a clock that keeps going, every
\* job that was inserted eventually is done or failed, or is queued for a
\* run_at that lies beyond the last time of the clock.
C21_EventuallyFinal ==
  \A j \in 1..MaxJobs :
    (j \in DOMAIN jobs)
      ~> /\ j \in DOMAIN jobs
         /\ \/ jobs[j].status \in {"done", "failed"}
            \/ (jobs[j].status = "queued" /\ jobs[j].run_at > MaxNow)

\* A job was claimed at 0, at 10 and at 30, failed each time, and is failed
\* with its image.
C21_Witness ==
  \E j \in DOMAIN jobs :
    /\ jobs[j].status = "failed"
    /\ jobs[j].attempts = DefaultMaxAttempts
    /\ jobs[j].run_at = 3 * BackoffSeconds
    /\ images[jobs[j].image_id].status = "failed"
    /\ EventCount(events, jobs[j].image_id, "job_retry") = 2
    /\ EventCount(events, jobs[j].image_id, "job_failed") = 1

\* C22: the activeJobs set of a worker never holds more than
\* config.concurrency job ids.
C22_InFlightBound ==
  \A w \in Workers : Cardinality(activeJobs[w]) <= Concurrency

\* C23: once the SIGTERM handler of a worker has run, no processNext of that
\* worker calls claim_jobs.
C23_NoClaimAfterSigterm ==
  [][\A p \in Procs :
       (pc[p] = "idle" /\ pc'[p] = "scan") => pc[WorkerOf(p)] = "running"]_vars

\* C24: when a worker has exited through the SIGTERM handler, no job is
\* processing with claimed_by that worker.
C24_NothingLeftClaimed ==
  \A w \in Workers :
    pc[w] = "exited" =>
      \A j \in DOMAIN jobs :
        ~(jobs[j].status = "processing" /\ jobs[j].claimed_by = w)

\* Whether request r is capability c as issued, header for header.
Unmodified(r, c) ==
  /\ r.method = c.method
  /\ UrlPath(r.url) = c.path
  /\ r.expires = Header(c.expires, "")
  /\ r.signature = c.signature

\* Whether request r carries the method, path, expiry value and signature
\* of capability c.
Matches(r, c) ==
  /\ r.method = c.method
  /\ UrlPath(r.url) = c.path
  /\ parseInt(r.expires) = c.expires
  /\ r.signature = c.signature

Verified == media'.last # media.last

\* C25: Verify accepts a request only if its method, its path, its expiry
\* value and its signature are those of one capability that was issued; the
\* signature of a capability presented with another method, another path or
\* another expiry, or changed in a character, is denied.
C25_ExactCapability ==
  [][(Verified /\ media'.last.code = "ok")
       => /\ \E c \in media.caps : Matches(media'.last.request, c)
          /\ \A c \in media.caps :
               media'.last.request.signature = c.signature
                 => Matches(media'.last.request, c)]_vars

C25_Witness ==
  \E c \in media.caps :
    /\ media.last.code = "403"
    /\ media.last.error = "Invalid signature"
    /\ media.last.request.signature = c.signature
    /\ media.last.request.method # c.method
    /\ UrlPath(media.last.request.url) = c.path
    /\ media.last.request.expires = Header(c.expires, "")

\* C26: a capability issued at time t with ttl seconds expires at
\* t + ttl * 1000 ms, and presented unmodified it is allowed at every time
\* up to and including its expiry and denied at every later time.
C26_Expiry ==
  [][/\ \A c \in media'.caps \ media.caps :
          \E ttl \in TtlArgs : c.expires = DateNow + ttl * 1000
     /\ Verified =>
          \A c \in media.caps :
            Unmodified(media'.last.request, c)
              => /\ DateNow <= c.expires => media'.last.code = "ok"
                 /\ DateNow > c.expires => media'.last.code = "403"]_vars

C26_Witness ==
  \E c \in media.caps :
    /\ Unmodified(media.last.request, c)
    /\ media.last.at > c.expires
    /\ media.last.code = "403"
    /\ media.last.error = "Signature expired"

\* Whether the request of answer a carries a capability that was issued for
\* its method and path and has not run out at the time of a.
Carries(a) ==
  \E c \in media.caps : Matches(a.request, c) /\ a.at <= c.expires

Bodies == {Body(c) : c \in Clients}

C28_NeverPartial ==
  /\ \A f \in StorePaths :
       media.dir[f] # NoId => media.inodes[media.dir[f]] \in Bodies
  /\ media.seen.status = "200" => media.seen.content \in Bodies

\* C38: under the calls of the engine, a job that is done or failed keeps
\* its status for as long as its row exists.
C38_FinalIsAbsorbing ==
  [][\A j \in DOMAIN jobs :
       (jobs[j].status \in {"done", "failed"} /\ j \in DOMAIN jobs')
         => jobs'[j].status = jobs[j].status]_vars

\* C39: fail_job for an id with no row in jobs ends in an error and leaves
\* images, jobs and events as they were.
C39_FailMissingRaises ==
  [][\A id \in 1..MaxJobs :
       (FailCalled(id) /\ id \notin DOMAIN jobs)
         => (ret'.val = "error" /\ UNCHANGED <<images, jobs, events>>)]_vars

C39_Witness ==
  /\ ret.op = "fail"
  /\ ret.val = "error"
  /\ ret.id \notin DOMAIN jobs
  /\ DOMAIN jobs # {}

\* A step in which a request reaches the hook of a file route.
Presented ==
  \/ Verified
  \/ \E c \in Clients : media.wr[c].at = "idle" /\ media'.wr[c].at # "idle"

\* C40: the answer of the hook is a function of the request and the clock
\* alone, and a capability that was accepted is accepted again, unchanged,
\* at every later presentation up to its expiry.
C40_Stateless ==
  [][Presented
       => /\ media'.last.code = verifyHmac(media'.last.request, DateNow).code
          /\ (/\ media.last.code = "ok"
              /\ media'.last.request = media.last.request
              /\ \E c \in media.caps :
                   Unmodified(media.last.request, c) /\ DateNow <= c.expires)
               => media'.last.code = "ok"]_vars

C40_Witness ==
  /\ media.puts = 2
  /\ \A c \in Clients : media.wr[c].at # "idle" /\ media.wr[c].path = "/originals/x"
  /\ media.last.code = "ok"
  /\ media.last.request.method = "PUT"
  /\ media.last.at > 0

\* The worker process p has called complete_job for its job.
Completed(p) ==
  \/ pc[p] = "finally" /\ errmsg[p] = NULL
  \/ pc[p] \in {"fail", "finally"} /\ errmsg[p] = AmbiguousColumn

\* C37: once a worker has called Complete for a job of an image and no
\* process request for that image is still in progress, the image has
\* status done, whatever the order of the producer's and the worker's steps.
C37_DoneSurvivesEnqueue ==
  \A p \in Procs :
    (/\ Completed(p)
     /\ JobImage(p) \in DOMAIN images
     /\ \A u \in Users : ureq[u].image # JobImage(p))
      => images[JobImage(p)].status = "done"

\* C32: every job and every event names an image that exists.
C32_ReferencesExist ==
  /\ \A j \in DOMAIN jobs : jobs[j].image_id \in DOMAIN images
  /\ \A e \in DOMAIN events : e.image_id \in DOMAIN images

\* An image was deleted under a worker that holds one of its jobs.
C32_Witness ==
  \E p \in Procs :
    /\ pc[p] \in {"load", "complete", "fail"}
    /\ cur[p] # NoId
    /\ cur[p] \notin DOMAIN jobs
    /\ images = <<>>
    /\ imgseq > 0

\* C31: a process request for an image that does not exist is answered 404
\* and inserts no job, and the image of every job has a method among mosaic,
\* blur and solid and a mosaic size from 1 to 120.
C31_PermanentErrorsRejected ==
  [][/\ \A u \in Users :
          (upc[u] = "idle" /\ uresp'[u] # uresp[u] /\ uresp'[u].code = "404")
            => jobs' = jobs
     /\ \A j \in DOMAIN jobs' :
          /\ jobs'[j].image_id \in DOMAIN images'
          /\ images'[jobs'[j].image_id].processing_options.method
               \in {"mosaic", "blur", "solid"}
          /\ images'[jobs'[j].image_id].processing_options.mosaic_size
               \in MosaicMin..MosaicMax]_vars

\* C33: when processJob ends, the worker has reported one outcome: Complete
\* alone, with the job done, if download, filter and upload succeeded, and
\* Fail alone, with the error of the step that failed, if one did not.
C33_OneOutcome ==
  [][\A p \in Procs :
       (pc[p] = "finally" /\ pc'[p] = "idle" /\ cur[p] \in DOMAIN jobs)
         => IF work[p].uploaded
            THEN errmsg[p] = NULL /\ jobs[cur[p]].status = "done"
            ELSE errmsg[p] \in {ImageNotFound, DownloadFailed, SpawnFailed,
                                DefaceFailed, DefaceKilled, StatFailed,
                                UploadFailed}]_vars

\* C35: the worker uploads the result and calls Complete only after a
\* filter run that exited with code zero and left a non-empty output file.
C35_SuccessNeedsOutput ==
  [][\A p \in Procs :
       (\/ ~work[p].uploaded /\ work'[p].uploaded
        \/ pc[p] # "complete" /\ pc'[p] = "complete")
         => (work[p].exit = "0" /\ work[p].output = "full")]_vars

\* processJob of invocation p has left its inner try block, or is not
\* running.
Ended(p) == pc[p] \in {"idle", "scan", "load"} \/ work[p].cleaned

\* C36: when processing of a job has ended, on any path, neither the temp
\* input file nor the temp output file of that job is on disk.
C36_TempFilesRemoved ==
  \A p \in Procs :
    Ended(p) => (work[p].input = "none" /\ work[p].output = "none")

\* The filter failed and left no output: the unlink of the output finds
\* nothing, the input is gone.
C36_Witness ==
  \E p \in Procs :
    /\ work[p].cleaned
    /\ work[p].exit = "1"
    /\ errmsg[p] = DefaceFailed
    /\ work[p].input = "none"
    /\ work[p].output = "none"

\* C34: a processNext that goes on to claim with n jobs in flight asks
\* claim_jobs for the concurrency less n rows.
C34_ClaimsUpToConcurrency ==
  [][\A p \in WorkerProcs :
       (pc[p] = "idle" /\ pc'[p] = "scan")
         => tx'[p].limit =
              WakeConcurrency - Cardinality(activeJobs[WorkerOf(p)])]_vars

====
